---------------------------- MODULE Spec2Model ----------------------------
(***************************************************************************)
(* syncthing-inotify: the change accumulator (accumulateChanges) and the   *)
(* tree aggregator (aggregateChanges) of src/syncwatcher.go.               *)
(*                                                                         *)
(* Strings are sequences of byte values, so that sort.Strings,             *)
(* strings.HasPrefix, strings.TrimPrefix, filepath.Clean and filepath.Dir  *)
(* are computed on characters as the Go code computes them.                *)
(*                                                                         *)
(* Time is counted in ticks of debounceTimeout (500 ms by default) and is  *)
(* kept relative to the current instant: a stored time.Time t is held as   *)
(* t - time.Now(), which is <= 0 for a time stamp of the past and >= 0 for *)
(* a deadline of the future.                                               *)
(***************************************************************************)
EXTENDS Integers, Sequences, FiniteSets, TLC

-----------------------------------------------------------------------------
(* Strings *)

\* os.PathSeparator as a string ("/").
pathSeparator == <<47>>

\* The file name Syncthing is asked to scan as a reminder (".stfolder").
stfolder == <<46, 115, 116, 102, 111, 108, 100, 101, 114>>

\* The path strings used as inputs.
EMPTY == <<>>
P_a   == <<97>>
P_af  == <<97, 47, 102>>
P_ag  == <<97, 47, 103>>
P_ah  == <<97, 47, 104>>
P_b   == <<98>>
P_ax  == <<97, 46, 120>>
P_a0  == <<97, 47, 48>>
P_ae  == <<97, 47, 101>>
P_ab  == <<97, 47, 98>>
P_abd == <<97, 47, 98, 47, 100>>
P_abf == <<97, 47, 98, 47, 102>>
P_abg == <<97, 47, 98, 47, 103>>
P_abh == <<97, 47, 98, 47, 104>>
P_abc == <<97, 47, 98, 47, 99>>
P_abci == <<97, 47, 98, 47, 99, 47, 105>>
P_ac  == <<97, 47, 99>>
P_acf == <<97, 47, 99, 47, 102>>
P_acg == <<97, 47, 99, 47, 103>>
P_ad  == <<97, 47, 100>>
P_adf == <<97, 47, 100, 47, 102>>

\* Byte-wise lexicographic order, as Go compares strings (s < t).
RECURSIVE StrLess(_, _)
StrLess(s, t) ==
    IF t = <<>> THEN FALSE
    ELSE IF s = <<>> THEN TRUE
    ELSE IF Head(s) # Head(t) THEN Head(s) < Head(t)
    ELSE StrLess(Tail(s), Tail(t))

\* strings.HasPrefix(s, prefix)
HasPrefix(s, prefix) ==
    /\ Len(s) >= Len(prefix)
    /\ SubSeq(s, 1, Len(prefix)) = prefix

\* strings.TrimPrefix(s, prefix)
TrimPrefix(s, prefix) ==
    IF HasPrefix(s, prefix) THEN SubSeq(s, Len(prefix) + 1, Len(s)) ELSE s

\* sort.Strings applied to a slice: insertion of x into a sorted sequence.
RECURSIVE InsertSorted(_, _)
InsertSorted(x, sorted) ==
    IF sorted = <<>> THEN <<x>>
    ELSE IF StrLess(Head(sorted), x) THEN <<Head(sorted)>> \o InsertSorted(x, Tail(sorted))
    ELSE <<x>> \o sorted

RECURSIVE SortStrings(_)
SortStrings(xs) ==
    IF xs = <<>> THEN <<>> ELSE InsertSorted(Head(xs), SortStrings(Tail(xs)))

\* The elements of a set of strings as a slice (sorted: the order in which Go
\* ranges over a map is unspecified, and every consumer sorts the slice).
RECURSIVE SetToSeq(_)
SetToSeq(S) ==
    IF S = {} THEN <<>>
    ELSE LET x == CHOOSE y \in S : \A z \in S : z = y \/ StrLess(y, z)
         IN <<x>> \o SetToSeq(S \ {x})

Range(xs) == {xs[i] : i \in DOMAIN xs}

\* The components of a path between separators.
RECURSIVE SplitPath(_, _, _)
SplitPath(s, i, cur) ==
    IF i > Len(s) THEN <<cur>>
    ELSE IF <<s[i]>> = pathSeparator THEN <<cur>> \o SplitPath(s, i + 1, <<>>)
    ELSE SplitPath(s, i + 1, Append(cur, s[i]))

RECURSIVE JoinPath(_)
JoinPath(comps) ==
    IF comps = <<>> THEN <<>>
    ELSE IF Len(comps) = 1 THEN comps[1]
    ELSE comps[1] \o pathSeparator \o JoinPath(Tail(comps))

\* filepath.Clean on components: "" and "." are dropped, ".." removes the
\* component before it (or is kept at the start of a relative path).
RECURSIVE CleanComps(_, _, _)
CleanComps(comps, out, rooted) ==
    IF comps = <<>> THEN out
    ELSE LET c == Head(comps) IN
         IF c = <<>> \/ c = <<46>> THEN CleanComps(Tail(comps), out, rooted)
         ELSE IF c = <<46, 46>> THEN
              IF out # <<>> /\ out[Len(out)] # <<46, 46>>
                  THEN CleanComps(Tail(comps), SubSeq(out, 1, Len(out) - 1), rooted)
              ELSE IF rooted THEN CleanComps(Tail(comps), out, rooted)
              ELSE CleanComps(Tail(comps), Append(out, c), rooted)
         ELSE CleanComps(Tail(comps), Append(out, c), rooted)

\* filepath.Clean(path)
CleanRooted(body) == pathSeparator \o body

CleanRelative(body) == IF body = <<>> THEN <<46>> ELSE body

Clean(path) ==
    IF path = <<>> THEN <<46>>
    ELSE IF HasPrefix(path, pathSeparator)
        THEN CleanRooted(JoinPath(CleanComps(SplitPath(path, 1, <<>>), <<>>, TRUE)))
    ELSE CleanRelative(JoinPath(CleanComps(SplitPath(path, 1, <<>>), <<>>, FALSE)))

\* The index of the last separator of path, 0 when there is none.
RECURSIVE LastSeparator(_, _)
LastSeparator(path, i) ==
    IF i = 0 THEN 0
    ELSE IF <<path[i]>> = pathSeparator THEN i
    ELSE LastSeparator(path, i - 1)

\* filepath.Dir(path)
Dir(path) == Clean(SubSeq(path, 1, LastSeparator(path, Len(path))))

\* b is a at a path boundary below a: a strict path-descendant.
IsDescendant(b, a) == HasPrefix(b, a \o pathSeparator) /\ Len(b) > Len(a) + 1

-----------------------------------------------------------------------------
(* Tree aggregator: aggregateChanges *)

\* Go map access: the zero value for a missing key.
MapGet(m, k) == IF k \in DOMAIN m THEN m[k] ELSE 0

\* Go map assignment m[k] = v.
MapPut(m, k, v) == [x \in (DOMAIN m) \cup {k} |-> IF x = k THEN v ELSE m[x]]

\* os.Stat(path): "file", "dir", or "none" when the returned FileInfo is nil.
\* stat is the file system as the process sees it, a function on path strings.
Stat(stat, path) == IF path \in DOMAIN stat THEN stat[path] ELSE "none"

\* path == "." is replaced by "".
DotToEmpty(path) == IF path = <<46>> THEN <<>> ELSE path

\* trackedPaths[k]++
MapIncr(m, k) == MapPut(m, k, MapGet(m, k) + 1)

\* A variant that adds the weight of a file to every tracked directory.
ScoreParentsAll(trackedPaths, trackedDirs, dir, cleaned) ==
    [trackedPaths |->
        [k \in DOMAIN trackedPaths |->
            IF k \in trackedDirs THEN trackedPaths[k] + 1 ELSE trackedPaths[k]],
     trackedDirs  |-> trackedDirs,
     previousPath |-> cleaned]

\* "Search for existing parent directory relations in the map": the end of
\* the body of the first loop. acc = [trackedPaths, trackedDirs, previousPath].
ScoreParents(trackedPaths, trackedDirs, dir, cleaned) ==
    [trackedPaths |->
        [k \in DOMAIN trackedPaths |->
            IF k \in trackedDirs /\ HasPrefix(dir, k \o pathSeparator)
                THEN trackedPaths[k] + 1 ELSE trackedPaths[k]],
     trackedDirs  |-> trackedDirs,
     previousPath |-> cleaned]

\* A variant of the three cases that scores a missing path like a file.
ScoreStatMissingAsFile(acc, cleaned, fi, path, dirVsFiles) ==
    IF fi = "dir" THEN
        ScoreParents(MapPut(acc.trackedPaths, path, dirVsFiles),
                     acc.trackedDirs \cup {path}, path, cleaned)
    ELSE
        ScoreParents(MapIncr(MapPut(acc.trackedPaths, path, -1), DotToEmpty(Dir(path))),
                     acc.trackedDirs \cup {DotToEmpty(Dir(path))},
                     DotToEmpty(Dir(path)), cleaned)

\* A variant of the three cases in which a file adds nothing to the score of
\* its directory.
ScoreStatFlat(acc, cleaned, fi, path, dirVsFiles) ==
    IF fi = "none" THEN
        ScoreParents(MapPut(acc.trackedPaths, path, dirVsFiles),
                     acc.trackedDirs, path, cleaned)
    ELSE IF fi = "dir" THEN
        ScoreParents(MapPut(acc.trackedPaths, path, dirVsFiles),
                     acc.trackedDirs \cup {path}, path, cleaned)
    ELSE
        ScoreParents(MapPut(acc.trackedPaths, path, -1),
                     acc.trackedDirs, DotToEmpty(Dir(path)), cleaned)

\* The three cases on fi of the body of the first loop.
ScoreStat(acc, cleaned, fi, path, dirVsFiles) ==
    IF fi = "none" THEN
        ScoreParents(MapPut(acc.trackedPaths, path, dirVsFiles),
                     acc.trackedDirs, path, cleaned)
    ELSE IF fi = "dir" THEN
        ScoreParents(MapPut(acc.trackedPaths, path, dirVsFiles),
                     acc.trackedDirs \cup {path}, path, cleaned)
    ELSE
        ScoreParents(MapIncr(MapPut(acc.trackedPaths, path, -1), DotToEmpty(Dir(path))),
                     acc.trackedDirs \cup {DotToEmpty(Dir(path))},
                     DotToEmpty(Dir(path)), cleaned)

\* A variant without the test for duplicates.
ScoreCleanedTwice(acc, cleaned, folderPath, dirVsFiles, stat) ==
    ScoreStat(acc, cleaned, Stat(stat, cleaned),
              TrimPrefix(TrimPrefix(cleaned, folderPath), pathSeparator),
              dirVsFiles)

\* The body of the first loop from the test for duplicates on.
ScoreCleaned(acc, cleaned, folderPath, dirVsFiles, stat) ==
    IF cleaned = acc.previousPath THEN acc
    ELSE ScoreStat(acc, cleaned, Stat(stat, cleaned),
                   TrimPrefix(TrimPrefix(cleaned, folderPath), pathSeparator),
                   dirVsFiles)

\* The first loop of aggregateChanges over the sorted slice.
RECURSIVE ScorePaths(_, _, _, _, _)
ScorePaths(acc, sorted, folderPath, dirVsFiles, stat) ==
    IF sorted = <<>> THEN acc
    ELSE ScorePaths(ScoreCleaned(acc, DotToEmpty(Clean(Head(sorted))),
                                 folderPath, dirVsFiles, stat),
                    Tail(sorted), folderPath, dirVsFiles, stat)

\* The score map built by the first loop of aggregateChanges.
TrackedPaths(folderPath, dirVsFiles, stat, paths) ==
    ScorePaths([trackedPaths |-> <<>>, trackedDirs |-> {}, previousPath |-> <<>>],
               SortStrings(paths), folderPath, dirVsFiles, stat).trackedPaths

RECURSIVE SelectScans(_, _, _, _, _)

\* A variant of the step that holds files to the threshold as well.
SelectScanDirsOnly(trackedPath, rest, trackedPaths, dirVsFiles, previousPath, scans) ==
    IF HasPrefix(trackedPath, previousPath \o pathSeparator)
        THEN SelectScans(rest, trackedPaths, dirVsFiles, previousPath, scans)
    ELSE IF trackedPaths[trackedPath] < dirVsFiles
        THEN SelectScans(rest, trackedPaths, dirVsFiles, previousPath, scans)
    ELSE IF trackedPath = <<>>
        THEN Append(scans, trackedPath)
    ELSE SelectScans(rest, trackedPaths, dirVsFiles, trackedPath,
                     Append(scans, trackedPath))

\* A variant of the step that goes on after accepting the root.
SelectScanOn(trackedPath, rest, trackedPaths, dirVsFiles, previousPath, scans) ==
    IF HasPrefix(trackedPath, previousPath \o pathSeparator)
        THEN SelectScans(rest, trackedPaths, dirVsFiles, previousPath, scans)
    ELSE IF trackedPaths[trackedPath] < dirVsFiles /\ trackedPaths[trackedPath] # -1
        THEN SelectScans(rest, trackedPaths, dirVsFiles, previousPath, scans)
    ELSE SelectScans(rest, trackedPaths, dirVsFiles, trackedPath,
                     Append(scans, trackedPath))

\* A variant of the step that accepts a directory only above the threshold.
SelectScanAbove(trackedPath, rest, trackedPaths, dirVsFiles, previousPath, scans) ==
    IF HasPrefix(trackedPath, previousPath \o pathSeparator)
        THEN SelectScans(rest, trackedPaths, dirVsFiles, previousPath, scans)
    ELSE IF trackedPaths[trackedPath] <= dirVsFiles /\ trackedPaths[trackedPath] # -1
        THEN SelectScans(rest, trackedPaths, dirVsFiles, previousPath, scans)
    ELSE IF trackedPath = <<>>
        THEN Append(scans, trackedPath)
    ELSE SelectScans(rest, trackedPaths, dirVsFiles, trackedPath,
                     Append(scans, trackedPath))

\* One step of the second loop of aggregateChanges.
SelectScan(trackedPath, rest, trackedPaths, dirVsFiles, previousPath, scans) ==
    IF HasPrefix(trackedPath, previousPath \o pathSeparator)
        THEN SelectScans(rest, trackedPaths, dirVsFiles, previousPath, scans)
    ELSE IF trackedPaths[trackedPath] < dirVsFiles /\ trackedPaths[trackedPath] # -1
        THEN SelectScans(rest, trackedPaths, dirVsFiles, previousPath, scans)
    ELSE IF trackedPath = <<>>
        THEN Append(scans, trackedPath)
    ELSE SelectScans(rest, trackedPaths, dirVsFiles, trackedPath,
                     Append(scans, trackedPath))

\* The second loop of aggregateChanges over the sorted keys.
SelectScans(keys, trackedPaths, dirVsFiles, previousPath, scans) ==
    IF keys = <<>> THEN scans
    ELSE SelectScan(Head(keys), Tail(keys), trackedPaths, dirVsFiles, previousPath, scans)

\* The scans chosen from a score map.
Scans(trackedPaths, dirVsFiles) ==
    SelectScans(SetToSeq(DOMAIN trackedPaths), trackedPaths, dirVsFiles, <<>>, <<>>)

\* aggregateChanges: err = TRUE is the error returned for an empty slice
\* (no callback is made); otherwise the callback is called with scans and
\* its result is returned.
aggregateChanges(folderPath, dirVsFiles, stat, paths) ==
    IF Len(paths) = 0 THEN [err |-> TRUE, scans |-> <<>>]
    ELSE [err   |-> FALSE,
          scans |-> Scans(TrackedPaths(folderPath, dirVsFiles, stat, paths), dirVsFiles)]

-----------------------------------------------------------------------------
(* Ignore filter: shouldIgnore *)

\* strings.Contains(s, substr)
Contains(s, substr) ==
    \E i \in 0..(Len(s) - Len(substr)) : SubSeq(s, i + 1, i + Len(substr)) = substr

\* p.match.MatchString(path): a compiled pattern is given by the paths it
\* matches.
MatchString(p, path) == path \in p.match

\* The loop over ignorePaths: some literal is contained in path.
RECURSIVE ContainsIgnorePath(_, _)
ContainsIgnorePath(ignorePaths, path) ==
    IF ignorePaths = <<>> THEN FALSE
    ELSE IF Contains(path, Head(ignorePaths)) THEN TRUE
    ELSE ContainsIgnorePath(Tail(ignorePaths), path)

\* A variant of the inner loop in which no exclude-pattern keeps a path.
RECURSIVE Keep(_, _)
KeepNever(ignorePatterns, path) == FALSE

\* The inner loop over p2: keep is set by an exclude-pattern that matches.
Keep(ignorePatterns, path) ==
    IF ignorePatterns = <<>> THEN FALSE
    ELSE IF ~Head(ignorePatterns).include /\ MatchString(Head(ignorePatterns), path)
        THEN TRUE
    ELSE Keep(Tail(ignorePatterns), path)

\* The outer loop over p1, from the pattern at the head of rest on.
RECURSIVE IgnoredByPattern(_, _, _)
IgnoredByPattern(rest, ignorePatterns, path) ==
    IF rest = <<>> THEN FALSE
    ELSE IF Head(rest).include /\ MatchString(Head(rest), path)
                               /\ ~Keep(ignorePatterns, path)
        THEN TRUE
    ELSE IgnoredByPattern(Tail(rest), ignorePatterns, path)

shouldIgnore(ignorePaths, ignorePatterns, path) ==
    IF Len(path) = 0 THEN FALSE
    ELSE IF ContainsIgnorePath(ignorePaths, path) THEN TRUE
    ELSE IgnoredByPattern(ignorePatterns, ignorePatterns, path)

-----------------------------------------------------------------------------
(* Change accumulator: accumulateChanges *)

\* One tick: the debounceTimeout handed to accumulateChanges (500 ms).
debounceTimeout == 1

\* configSyncTimeout = 5 s, in ticks of 500 ms.
configSyncTimeout == 10

\* The -delay-scan flag in seconds, scaled down from 3600 so that the
\* reminder interval stays the longest duration of the loop.
delayScan == 11

\* The greatest number of tracked paths, scaled down from 512.
maxFiles == 3

\* The density threshold handed to accumulateChanges.
dirVsFiles == 2

\* time.Duration(delayScan-5) * time.Second, in ticks (two per second).
delayScanInterval == (delayScan - 5) * 2

\* The folder's root as handed to accumulateChanges ("/r").
folderPath == <<47, 114>>

\* Time stamps older than every cutoff are indistinguishable: they are kept
\* at the first value below the staleness cutoff.
oldest == 0 - (debounceTimeout * 10) - 1

\* The paths events are reported on.
EventPaths == {EMPTY, P_a, P_af, P_ag}

\* What os.Stat reports for the paths: everything exists (a is a directory
\* holding the files f and g), or nothing does.
FileSystems ==
    {[p \in {P_a, P_af, P_ag} |-> IF p = P_a THEN "dir" ELSE "file"],
     [p \in {P_a, P_af, P_ag} |-> "none"]}

VARIABLES
    inProgress,     \* map[string]progressTime: path -> [fsEvent, time]
    currInterval,   \* the timeout of the timer
    nextScanTime,   \* the time to remind Syncthing to delay its scan
    notified,       \* the callback calls made by the last step, in order
    lastOp,         \* the select case the last step ran
    suppressed,     \* history: paths whose Remote entry a local event removed
    started,        \* history: paths with an ItemStarted and no ItemFinished yet
    owed,           \* history: local changes no callback has covered yet
    lastItem,       \* history: the event the loop received last
    aggIn,          \* the arguments of a call of aggregateChanges
    aggOut,         \* the scans that call handed to the callback
    ignIn,          \* the arguments of a call of shouldIgnore
    ignOut,         \* the result of that call
    phase,          \* per unit: its accumulator waits in select or is busy
    backlog,        \* the events of a reply watchSTEvents has still to send
    stOffer,        \* the send on a stInput in which watchSTEvents blocks
    fsOffer,        \* per unit: the send on fsInput in which watchFolder blocks
    clock,          \* the number of events offered on any channel so far
    processed,      \* per unit: the events its accumulator received, in order
    workDir,        \* the working directory of the process
    disk,           \* the file system: the kind of object at each absolute path
    lastSeenID,     \* watchSTEvents: the ID of the last event seen
    crashed,        \* watchSTEvents: the goroutine ended in a run-time panic
    reply,          \* history: what getSTEvents returned last
    requests        \* history: the lastSeenID of every call of getSTEvents

accVars  == <<inProgress, currInterval, nextScanTime, notified, lastOp>>
histVars == <<suppressed, started, owed, lastItem>>
aggVars  == <<aggIn, aggOut>>
ignVars  == <<ignIn, ignOut>>
unitVars == <<phase, backlog, stOffer, fsOffer, clock, processed>>
envVars  == <<workDir, disk>>
pollVars == <<lastSeenID, crashed, reply, requests>>
vars     == <<accVars, histVars, aggVars, ignVars, unitVars, envVars, pollVars>>

\* A call of the InformCallback: the subs it was given and whether it
\* returned an error. kind tells the reminder from a batch.
Call(kind, subs, err) == [kind |-> kind, subs |-> subs, err |-> err]

\* d ticks pass: every stored time moves d further into the past.
ElapseTable(table, d) ==
    [p \in DOMAIN table |->
        [table[p] EXCEPT !.time = IF @ - d < oldest THEN oldest ELSE @ - d]]

ElapseDeadline(t, d) == IF t - d < -1 THEN -1 ELSE t - d

\* delete(m, k) for every k of keys
MapDelete(m, keys) == [x \in (DOMAIN m) \ keys |-> m[x]]

\* The state after the statements before the loop: the first reminder is
\* sent (its result is ignored) and the deadline is set.
AccInit ==
    /\ inProgress = <<>>
    /\ currInterval = delayScanInterval
    /\ nextScanTime = delayScanInterval
    /\ \E err \in BOOLEAN : notified = <<Call("reminder", <<stfolder>>, err)>>
    /\ lastOp = "init"

\* No event was received yet.
NoItem == [Path |-> <<>>, Finished |-> FALSE]

HistInit == suppressed = {} /\ started = {} /\ owed = {} /\ lastItem = NoItem

\* No call of the aggregator on its own is under way.
AggNone == [paths |-> <<>>, stat |-> <<>>, dirVsFiles |-> 0]
AggPending == [done |-> FALSE, err |-> FALSE, scans |-> <<>>]

AggIdle == aggIn = AggNone /\ aggOut = AggPending

\* No call of shouldIgnore on its own is under way.
IgnNone == [ignorePaths |-> <<>>, ignorePatterns |-> <<>>, path |-> <<>>]
IgnPending == [done |-> FALSE, ignored |-> FALSE]

IgnIdle == ignIn = IgnNone /\ ignOut = IgnPending

\* The watched folders, each with its own stInput, fsInput and accumulator.
Units == {1, 2}

\* No send is blocked.
NoOffer == [unit |-> 0, stamp |-> 0]

\* main: every accumulator has just been started, nothing was offered yet.
UnitInit ==
    /\ phase = [u \in Units |-> "select"]
    /\ backlog = <<>>
    /\ stOffer = NoOffer
    /\ fsOffer = [u \in Units |-> NoOffer]
    /\ clock = 0
    /\ processed = [u \in Units |-> <<>>]

\* The process runs in the folder's root, on a disk of which nothing is known.
EnvIdle == workDir = folderPath /\ disk = <<>>

\* What getSTEvents returns: an error (of a closed connection or another),
\* a nil list, or a list of events, of which the IDs are kept.
NoReply == [kind |-> "none", closed |-> FALSE, events |-> <<>>]

\* watchSTEvents starts: lastSeenID := 0.
PollInit ==
    /\ lastSeenID = 0
    /\ crashed = FALSE
    /\ reply = NoReply
    /\ requests = <<>>

Init == AccInit /\ HistInit /\ AggIdle /\ IgnIdle /\ UnitInit /\ EnvIdle /\ PollInit

\* A variant in which ItemFinished removes entries of Remote origin only.
StEventTableRemoteOnly(table, item) ==
    IF item.Path = <<>> THEN table
    ELSE IF item.Finished THEN
        IF item.Path \in DOMAIN table /\ ~table[item.Path].fsEvent
            THEN MapDelete(table, {item.Path}) ELSE table
    ELSE IF Cardinality(DOMAIN table) > maxFiles THEN table
    ELSE MapPut(table, item.Path, [fsEvent |-> FALSE, time |-> 0])

\* A variant in which ItemStarted removes an entry of local origin.
StEventTableSymmetric(table, item) ==
    IF item.Path = <<>> THEN table
    ELSE IF item.Finished THEN MapDelete(table, {item.Path})
    ELSE IF item.Path \in DOMAIN table /\ table[item.Path].fsEvent
        THEN MapDelete(table, {item.Path})
    ELSE IF Cardinality(DOMAIN table) > maxFiles THEN table
    ELSE MapPut(table, item.Path, [fsEvent |-> FALSE, time |-> 0])

\* A variant that tests Finished before the empty path.
StEventTableFinishedFirst(table, item) ==
    IF item.Finished THEN MapDelete(table, {item.Path})
    ELSE IF item.Path = <<>> THEN table
    ELSE IF Cardinality(DOMAIN table) > maxFiles THEN table
    ELSE MapPut(table, item.Path, [fsEvent |-> FALSE, time |-> 0])

\* case item := <-stInput: the table after the case.
StEventTable(table, item) ==
    IF item.Path = <<>> THEN table
    ELSE IF item.Finished THEN MapDelete(table, {item.Path})
    ELSE IF Cardinality(DOMAIN table) > maxFiles THEN table
    ELSE MapPut(table, item.Path, [fsEvent |-> FALSE, time |-> 0])

\* case item := <-stInput, received d ticks after the loop began to wait.
StEvent(item, d) ==
    /\ d <= currInterval
    /\ inProgress' = StEventTable(ElapseTable(inProgress, d), item)
    /\ currInterval' = IF item.Path = <<>> THEN debounceTimeout ELSE currInterval
    /\ nextScanTime' = ElapseDeadline(nextScanTime, d)
    /\ notified' = <<>>
    /\ lastOp' = "st"

\* A variant that tracks every local event, whatever the entry it finds.
FsEventTableAlways(table, item) ==
    IF Cardinality(DOMAIN table) > maxFiles THEN table
    ELSE MapPut(table, item, [fsEvent |-> TRUE, time |-> 0])

\* case item := <-fsInput: the table after the case.
FsEventTable(table, item) ==
    IF item \in DOMAIN table /\ ~table[item].fsEvent THEN MapDelete(table, {item})
    ELSE IF Cardinality(DOMAIN table) > maxFiles THEN table
    ELSE MapPut(table, item, [fsEvent |-> TRUE, time |-> 0])

\* A variant that stops taking local events while the table is full.
FsEventWhenRoom(item, d) ==
    /\ d <= currInterval
    /\ Cardinality(DOMAIN inProgress) <= maxFiles
    /\ inProgress' = FsEventTable(ElapseTable(inProgress, d), item)
    /\ currInterval' = debounceTimeout
    /\ nextScanTime' = ElapseDeadline(nextScanTime, d)
    /\ notified' = <<>>
    /\ lastOp' = "fs"

\* A variant that leaves the interval as it is.
FsEventKeepingInterval(item, d) ==
    /\ d <= currInterval
    /\ inProgress' = FsEventTable(ElapseTable(inProgress, d), item)
    /\ currInterval' = currInterval
    /\ nextScanTime' = ElapseDeadline(nextScanTime, d)
    /\ notified' = <<>>
    /\ lastOp' = "fs"

\* case item := <-fsInput, received d ticks after the loop began to wait.
FsEvent(item, d) ==
    /\ d <= currInterval
    /\ inProgress' = FsEventTable(ElapseTable(inProgress, d), item)
    /\ currInterval' = debounceTimeout
    /\ nextScanTime' = ElapseDeadline(nextScanTime, d)
    /\ notified' = <<>>
    /\ lastOp' = "fs"

\* The reminder is due: delayScan > 0 && nextScanTime.Before(time.Now())
ReminderDue(deadline) == delayScan > 0 /\ deadline < 0

\* A variant in which entries of Remote origin never expire.
ExpiredLocalOnly(progress) ==
    progress.fsEvent /\ progress.time < 0 - (debounceTimeout * 10)

\* expiry := time.Now().Add(-debounceTimeout * 10); progress.time.Before(expiry)
Expired(progress) == progress.time < 0 - (debounceTimeout * 10)

\* A variant of the clean-up that removes expired entries only.
CleanedUpExpired(table) ==
    MapDelete(table, {p \in DOMAIN table : Expired(table[p])})

\* The table after "Clean up invalid and expired paths".
CleanedUp(table) ==
    MapDelete(table, {p \in DOMAIN table : p = <<>> \/ Expired(table[p])})

\* The paths collected for the aggregator.
BatchPaths(table) == {p \in DOMAIN CleanedUp(table) : table[p].fsEvent}

\* A variant that takes the aggregated branch at maxFiles entries as well.
UpToMaxFiles(table) == Cardinality(DOMAIN table) <= maxFiles

\* len(inProgress) < maxFiles: the aggregated branch is taken.
BelowMaxFiles(table) == Cardinality(DOMAIN table) < maxFiles

\* A variant of the aggregated branch that keeps the reported paths.
AggregatedCallKeeping(cleaned, paths, agg, cbErr) ==
    IF paths = {} THEN
        [table |-> cleaned, calls |-> <<>>, err |-> "none"]
    ELSE IF agg.err THEN
        [table |-> cleaned, calls |-> <<>>, err |-> "error"]
    ELSE
        [table |-> cleaned,
         calls |-> <<Call("batch", agg.scans, cbErr)>>,
         err   |-> IF cbErr THEN "error" ELSE "nil"]

\* A variant that hands an empty batch to aggregateChanges as well.
AggregatedCallOnEmpty(cleaned, paths, agg, cbErr) ==
    IF agg.err THEN
        [table |-> cleaned, calls |-> <<>>, err |-> "error"]
    ELSE
        [table |-> IF cbErr THEN cleaned ELSE MapDelete(cleaned, paths),
         calls |-> <<Call("batch", agg.scans, cbErr)>>,
         err   |-> IF cbErr THEN "error" ELSE "nil"]

\* The aggregated branch of the timer case after the clean-up loop:
\* [table, calls, err], err being the err variable of the code after the
\* branch ("none" when the case was left by continue, before any call).
AggregatedCall(cleaned, paths, agg, cbErr) ==
    IF paths = {} THEN
        [table |-> cleaned, calls |-> <<>>, err |-> "none"]
    ELSE IF agg.err THEN
        [table |-> cleaned, calls |-> <<>>, err |-> "error"]
    ELSE
        [table |-> IF cbErr THEN cleaned ELSE MapDelete(cleaned, paths),
         calls |-> <<Call("batch", agg.scans, cbErr)>>,
         err   |-> IF cbErr THEN "error" ELSE "nil"]

AggregatedBranch(table, stat, cbErr) ==
    AggregatedCall(CleanedUp(table), BatchPaths(table),
                   aggregateChanges(folderPath, dirVsFiles, stat,
                                    SetToSeq(BatchPaths(table))),
                   cbErr)

\* A variant of the whole-folder branch that forgets every entry on success.
SaturatedBranchClearing(table, cbErr) ==
    [table |-> IF cbErr THEN table ELSE <<>>,
     calls |-> <<Call("batch", <<EMPTY>>, cbErr)>>,
     err   |-> IF cbErr THEN "error" ELSE "nil"]

\* The branch that asks for a scan of the entire folder.
SaturatedBranch(table, cbErr) ==
    [table |-> IF cbErr THEN table
               ELSE MapDelete(table, {p \in DOMAIN table : table[p].fsEvent}),
     calls |-> <<Call("batch", <<EMPTY>>, cbErr)>>,
     err   |-> IF cbErr THEN "error" ELSE "nil"]

\* The timer case from "Timeout AccumulateChanges" on, the table non-empty.
TimerBatch(table, stat, cbErr) ==
    IF BelowMaxFiles(table) THEN AggregatedBranch(table, stat, cbErr)
    ELSE SaturatedBranch(table, cbErr)

\* The deadline after the batch: pushed forward when err == nil; after an
\* error the loop sleeps configSyncTimeout.
DeadlineAfter(deadline, err) ==
    IF err = "nil" THEN delayScanInterval
    ELSE IF err = "error" THEN ElapseDeadline(deadline, configSyncTimeout)
    ELSE deadline

\* A variant without the sleep after an error.
TableAfterNoSleep(table, err) == table

\* The table after the batch: time.Sleep(configSyncTimeout) after an error.
TableAfter(table, err) ==
    IF err = "error" THEN ElapseTable(table, configSyncTimeout) ELSE table

\* A variant that moves the deadline only when the reminder call succeeded.
ReminderOnSuccess(deadline, remErr) ==
    IF ReminderDue(deadline)
        THEN [deadline |-> IF remErr THEN deadline ELSE delayScanInterval,
              calls    |-> <<Call("reminder", <<stfolder>>, remErr)>>]
        ELSE [deadline |-> deadline, calls |-> <<>>]

\* The reminder at the head of the timer case.
Reminder(deadline, remErr) ==
    IF ReminderDue(deadline)
        THEN [deadline |-> delayScanInterval,
              calls    |-> <<Call("reminder", <<stfolder>>, remErr)>>]
        ELSE [deadline |-> deadline, calls |-> <<>>]

\* A variant that never goes back to the slow interval.
TimerCaseKeepingInterval(r, b) ==
    /\ lastOp' = "timer"
    /\ currInterval' = currInterval
    /\ IF DOMAIN inProgress = {} THEN
          /\ inProgress' = inProgress
          /\ nextScanTime' = r.deadline
          /\ notified' = r.calls
       ELSE
          /\ notified' = r.calls \o b.calls
          /\ inProgress' = TableAfter(b.table, b.err)
          /\ nextScanTime' = DeadlineAfter(r.deadline, b.err)

\* The timer case after the reminder r, b being the outcome of the batch.
TimerCase(r, b) ==
    /\ lastOp' = "timer"
    /\ IF DOMAIN inProgress = {} THEN
          /\ inProgress' = inProgress
          /\ currInterval' = delayScanInterval
          /\ nextScanTime' = r.deadline
          /\ notified' = r.calls
       ELSE
          /\ currInterval' = currInterval
          /\ notified' = r.calls \o b.calls
          /\ inProgress' = TableAfter(b.table, b.err)
          /\ nextScanTime' = DeadlineAfter(r.deadline, b.err)

\* case <-time.After(currInterval)
TimerFire(stat, remErr, cbErr) ==
    TimerCase(Reminder(ElapseDeadline(nextScanTime, currInterval), remErr),
              TimerBatch(ElapseTable(inProgress, currInterval), stat, cbErr))

STEvents(paths) == [Path : paths, Finished : BOOLEAN]

\* The accumulator of one folder: events are received as soon as they are
\* sent; time passes while the loop waits for the timer, and in the sleep
\* after a failed call.
Next ==
    \/ \E item \in STEvents(EventPaths) :
           StEvent(item, 0) /\ UNCHANGED <<histVars, aggVars, ignVars, unitVars, envVars, pollVars>>
    \/ \E item \in EventPaths :
           FsEvent(item, 0) /\ UNCHANGED <<histVars, aggVars, ignVars, unitVars, envVars, pollVars>>
    \/ \E stat \in FileSystems, remErr, cbErr \in BOOLEAN :
           TimerFire(stat, remErr, cbErr) /\ UNCHANGED <<histVars, aggVars, ignVars, unitVars, envVars, pollVars>>

Spec == Init /\ [][Next]_vars

\* The same loop with the received event kept in lastItem; the Notifier
\* calls of the timer case answer nil.
NextEvents ==
    \/ \E item \in STEvents(EventPaths) :
           /\ StEvent(item, 0)
           /\ lastItem' = item
           /\ UNCHANGED <<suppressed, started, owed, aggVars, ignVars, unitVars, envVars, pollVars>>
    \/ \E item \in EventPaths :
           /\ FsEvent(item, 0)
           /\ lastItem' = [Path |-> item, Finished |-> FALSE]
           /\ UNCHANGED <<suppressed, started, owed, aggVars, ignVars, unitVars, envVars, pollVars>>
    \/ \E stat \in FileSystems :
           /\ TimerFire(stat, FALSE, FALSE)
           /\ lastItem' = NoItem
           /\ UNCHANGED <<suppressed, started, owed, aggVars, ignVars, unitVars, envVars, pollVars>>

SpecEvents == Init /\ [][NextEvents]_vars

\* The paths of the remote/local interplay: a directory and two files in it.
RemotePaths == {P_a, P_af, P_ag}

\* started after a remote event: ItemStarted(p) opens p, ItemFinished(p)
\* closes it.
StartedAfter(item) ==
    IF item.Path = <<>> THEN started
    ELSE IF item.Finished THEN started \ {item.Path}
    ELSE started \cup {item.Path}

\* suppressed after a local event on item: it enters when the event removed
\* its Remote entry and leaves with any further local event on it.
SuppressedAfter(item) ==
    IF item \in DOMAIN inProgress /\ ~inProgress[item].fsEvent
        THEN suppressed \cup {item}
        ELSE suppressed \ {item}

\* The accumulator with the history of remote and local events on each path,
\* under a Notifier that always succeeds.
NextRemote ==
    \/ \E item \in STEvents(RemotePaths) :
           /\ StEvent(item, 0)
           /\ started' = StartedAfter(item)
           /\ UNCHANGED <<suppressed, owed, lastItem, aggVars, ignVars, unitVars, envVars, pollVars>>
    \/ \E item \in RemotePaths :
           /\ FsEvent(item, 0)
           /\ suppressed' = SuppressedAfter(item)
           /\ UNCHANGED <<started, owed, lastItem, aggVars, ignVars, unitVars, envVars, pollVars>>
    \/ \E stat \in FileSystems :
           TimerFire(stat, FALSE, FALSE) /\ UNCHANGED <<histVars, aggVars, ignVars, unitVars, envVars, pollVars>>

SpecRemote == Init /\ [][NextRemote]_vars

\* The time that may pass before the loop receives an event: none, or as
\* long as the timer would have waited.
Delays == {0, debounceTimeout}

\* The remote events of a burst: the signal of queued work and another path.
BurstEvents == STEvents({EMPTY, P_b})

\* target covers p: it is p, an ancestor of p, or the whole folder.
Covers(target, p) == target = <<>> \/ target = p \/ IsDescendant(p, target)

\* owed after a step: the changes no call of the step covers.
OwedAfter(now, calls) ==
    {p \in now : \A i \in DOMAIN calls : \A k \in DOMAIN calls[i].subs :
                     ~Covers(calls[i].subs[k], p)}

\* A burst of events on one local path with a Notifier that always succeeds:
\* events may arrive at any moment before the timer fires.
NextBurst ==
    \/ \E item \in BurstEvents, d \in Delays :
           StEvent(item, d) /\ UNCHANGED <<histVars, aggVars, ignVars, unitVars, envVars, pollVars>>
    \/ \E d \in Delays :
           /\ FsEvent(P_a, d)
           /\ owed' = owed \cup {P_a}
           /\ UNCHANGED <<suppressed, started, lastItem, aggVars, ignVars, unitVars, envVars, pollVars>>
    \/ \E stat \in FileSystems, remErr \in BOOLEAN :
           /\ TimerFire(stat, remErr, FALSE)
           /\ owed' = OwedAfter(owed, notified')
           /\ UNCHANGED <<suppressed, started, lastItem, aggVars, ignVars, unitVars, envVars, pollVars>>

SpecBurst == Init /\ [][NextBurst]_vars

\* Enough paths to fill the table and have one more; Syncthing works on two
\* of them.
FullPaths == {P_a, P_af, P_ag, P_ah, P_b}
FullRemote == {P_a, P_b}

\* The local event for item is discarded: the table is full and item has no
\* entry (lines 663-666).
Discarded(table, item) ==
    item \notin DOMAIN table /\ Cardinality(DOMAIN table) > maxFiles

\* The loop on a table that fills up, with owed holding the local events
\* discarded since the last successful batch call; the Notifier succeeds.
NextFull ==
    \/ \E item \in STEvents(FullRemote) :
           StEvent(item, 0) /\ UNCHANGED <<histVars, aggVars, ignVars, unitVars, envVars, pollVars>>
    \/ \E item \in FullPaths :
           /\ FsEvent(item, 0)
           /\ owed' = IF Discarded(inProgress, item) THEN owed \cup {item} ELSE owed
           /\ UNCHANGED <<suppressed, started, lastItem, aggVars, ignVars, unitVars, envVars, pollVars>>
    \/ \E stat \in FileSystems :
           /\ TimerFire(stat, FALSE, FALSE)
           /\ owed' = IF \E i \in DOMAIN notified' :
                             notified'[i].kind = "batch" /\ ~notified'[i].err
                          THEN {} ELSE owed
           /\ UNCHANGED <<suppressed, started, lastItem, aggVars, ignVars, unitVars, envVars, pollVars>>

SpecFull == Init /\ [][NextFull]_vars

\* The batches handed to the aggregator on its own: the directory a, three
\* files in it, and two names in the root, one of which sorts between "a" and
\* "a/".
AggPaths == {P_a, P_ax, P_af, P_ag, P_ah, P_b}

\* The greatest threshold tried.
MaxThreshold == 3

\* What os.Stat may report for the paths of a batch: a path under a exists
\* only if a is a directory.
AggStats(S) ==
    {st \in [S -> {"file", "dir", "none"}] :
        \A p \in S : (IsDescendant(p, P_a) /\ st[p] # "none" /\ P_a \in S)
                         => st[P_a] = "dir"}

AggInputs ==
    UNION {[paths : {SetToSeq(S)}, stat : AggStats(S), dirVsFiles : 1..MaxThreshold] :
              S \in SUBSET AggPaths}

\* The batches of existing regular files two and three levels down: files
\* directly in a (one sorting before "a/b", one after), four files in a/b, one
\* in a/b/c, two in a/c and one in a/d.
DeepPaths == {P_a0, P_ae, P_abd, P_abf, P_abg, P_abh, P_abci, P_acf, P_acg, P_adf}

DeepInputs ==
    UNION {[paths : {SetToSeq(S)}, stat : {[p \in S |-> "file"]},
            dirVsFiles : 1..MaxThreshold] : S \in SUBSET DeepPaths}

\* aggregateChanges called once on a batch, with a callback that succeeds.
Aggregate ==
    /\ ~aggOut.done
    /\ aggOut' = [done  |-> TRUE,
                  err   |-> aggregateChanges(folderPath, aggIn.dirVsFiles,
                                             aggIn.stat, aggIn.paths).err,
                  scans |-> aggregateChanges(folderPath, aggIn.dirVsFiles,
                                             aggIn.stat, aggIn.paths).scans]
    /\ UNCHANGED <<aggIn, accVars, histVars, ignVars, unitVars, envVars, pollVars>>

InitAgg ==
    /\ AccInit /\ HistInit /\ IgnIdle /\ UnitInit /\ EnvIdle /\ PollInit
    /\ aggIn \in AggInputs \cup DeepInputs
    /\ aggOut = AggPending

NextAgg == Aggregate

SpecAgg == InitAgg /\ [][NextAgg]_vars


\* The paths handed to shouldIgnore, the root among them.
P_ab1 == <<97, 98>>
IgnorePathsIn == {EMPTY, P_a, P_ab1}

\* The literal ignore strings.
Literals == {P_b, P_ab1}

\* The compiled patterns: include or exclude, matching any set of paths.
Patterns == [include : BOOLEAN, match : SUBSET {P_a, P_ab1}]

\* The greatest number of literals and of patterns.
MaxIgnorePaths == 2
MaxPatterns == 2

\* The sequences over S of length at most n.
SeqUpTo(S, n) == UNION {[1..k -> S] : k \in 0..n}

IgnInputs ==
    [ignorePaths    : SeqUpTo(Literals, MaxIgnorePaths),
     ignorePatterns : SeqUpTo(Patterns, MaxPatterns),
     path           : IgnorePathsIn]

\* shouldIgnore called once.
Ignore ==
    /\ ~ignOut.done
    /\ ignOut' = [done    |-> TRUE,
                  ignored |-> shouldIgnore(ignIn.ignorePaths, ignIn.ignorePatterns,
                                           ignIn.path)]
    /\ UNCHANGED <<ignIn, accVars, histVars, aggVars, unitVars, envVars, pollVars>>

InitIgnore ==
    /\ AccInit /\ HistInit /\ AggIdle /\ UnitInit /\ EnvIdle /\ PollInit
    /\ ignIn \in IgnInputs
    /\ ignOut = IgnPending

NextIgnore == Ignore

SpecIgnore == InitIgnore /\ [][NextIgnore]_vars

\* The greatest number of events offered in a run, and of events in one
\* reply of getSTEvents.
MaxOffers == 3
MaxReply == 2

\* The accumulator of u is parked in its select and no sender waits for it.
Parked(u) ==
    /\ phase[u] = "select"
    /\ stOffer.unit # u
    /\ fsOffer[u] = NoOffer

\* A variant of the receive in which the newest event is handled first.
ProcessNewestFirst(log, stream, stamp, waited) ==
    <<[stream |-> stream, stamp |-> stamp, waited |-> waited]>> \o log

\* The accumulator takes an event from a channel of its select and handles it.
\* waited: the sender had to block before the event was taken.
Process(log, stream, stamp, waited) ==
    Append(log, [stream |-> stream, stamp |-> stamp, waited |-> waited])

\* watchSTEvents: getSTEvents returns the next events, each for some folder.
GetSTEvents(events) ==
    /\ backlog = <<>> /\ stOffer = NoOffer
    /\ events # <<>>
    /\ clock + Len(events) <= MaxOffers
    /\ backlog' = events
    /\ UNCHANGED <<phase, stOffer, fsOffer, clock, processed>>

\* watchSTEvents: ch <- STEvent{...} for the next event of the reply. A parked
\* accumulator takes it at once, otherwise the send blocks.
SendST ==
    /\ backlog # <<>> /\ stOffer = NoOffer
    /\ LET u == Head(backlog) IN
        IF Parked(u)
            THEN /\ processed' = [processed EXCEPT
                                     ![u] = Process(@, "st", clock + 1, FALSE)]
                 /\ UNCHANGED stOffer
            ELSE /\ stOffer' = [unit |-> u, stamp |-> clock + 1]
                 /\ UNCHANGED processed
    /\ backlog' = Tail(backlog)
    /\ clock' = clock + 1
    /\ UNCHANGED <<phase, fsOffer>>

\* watchFolder of u: fsInput <- ev.
SendFS(u) ==
    /\ fsOffer[u] = NoOffer
    /\ clock < MaxOffers
    /\ IF Parked(u)
           THEN /\ processed' = [processed EXCEPT
                                    ![u] = Process(@, "fs", clock + 1, FALSE)]
                /\ UNCHANGED fsOffer
           ELSE /\ fsOffer' = [fsOffer EXCEPT ![u] = [unit |-> u, stamp |-> clock + 1]]
                /\ UNCHANGED processed
    /\ clock' = clock + 1
    /\ UNCHANGED <<phase, backlog, stOffer>>

\* accumulateChanges of u: the select takes the case of stInput.
ReceiveST(u) ==
    /\ phase[u] = "select"
    /\ stOffer.unit = u
    /\ processed' = [processed EXCEPT ![u] = Process(@, "st", stOffer.stamp, TRUE)]
    /\ stOffer' = NoOffer
    /\ UNCHANGED <<phase, backlog, fsOffer, clock>>

\* accumulateChanges of u: the select takes the case of fsInput.
ReceiveFS(u) ==
    /\ phase[u] = "select"
    /\ fsOffer[u] # NoOffer
    /\ processed' = [processed EXCEPT ![u] = Process(@, "fs", fsOffer[u].stamp, TRUE)]
    /\ fsOffer' = [fsOffer EXCEPT ![u] = NoOffer]
    /\ UNCHANGED <<phase, backlog, stOffer, clock>>

\* accumulateChanges of u: the select takes the timer case and the accumulator
\* calls the callback, or sleeps after its failure.
TimerBusy(u) ==
    /\ phase[u] = "select"
    /\ phase' = [phase EXCEPT ![u] = "busy"]
    /\ UNCHANGED <<backlog, stOffer, fsOffer, clock, processed>>

\* accumulateChanges of u: back at the select.
Resume(u) ==
    /\ phase[u] = "busy"
    /\ phase' = [phase EXCEPT ![u] = "select"]
    /\ UNCHANGED <<backlog, stOffer, fsOffer, clock, processed>>

InitUnits == AccInit /\ HistInit /\ AggIdle /\ IgnIdle /\ UnitInit /\ EnvIdle /\ PollInit

NextUnits ==
    \/ \E events \in SeqUpTo(Units, MaxReply) :
           GetSTEvents(events) /\ UNCHANGED <<accVars, histVars, aggVars, ignVars, envVars, pollVars>>
    \/ SendST /\ UNCHANGED <<accVars, histVars, aggVars, ignVars, envVars, pollVars>>
    \/ \E u \in Units :
           SendFS(u) /\ UNCHANGED <<accVars, histVars, aggVars, ignVars, envVars, pollVars>>
    \/ \E u \in Units :
           ReceiveST(u) /\ UNCHANGED <<accVars, histVars, aggVars, ignVars, envVars, pollVars>>
    \/ \E u \in Units :
           ReceiveFS(u) /\ UNCHANGED <<accVars, histVars, aggVars, ignVars, envVars, pollVars>>
    \/ \E u \in Units :
           TimerBusy(u) /\ UNCHANGED <<accVars, histVars, aggVars, ignVars, envVars, pollVars>>
    \/ \E u \in Units :
           Resume(u) /\ UNCHANGED <<accVars, histVars, aggVars, ignVars, envVars, pollVars>>

SpecUnits == InitUnits /\ [][NextUnits]_vars

\* relativePath(path, folderPath)
relativePath(path, folder) ==
    IF Len(TrimPrefix(path, folder)) = 0 THEN TrimPrefix(path, folder)
    ELSE IF Head(TrimPrefix(path, folder)) = Head(pathSeparator)
        THEN Tail(TrimPrefix(path, folder))
    ELSE TrimPrefix(path, folder)

\* The absolute path the operating system resolves name to in directory dir.
Resolve(dir, name) ==
    IF HasPrefix(name, pathSeparator) THEN name ELSE dir \o pathSeparator \o name

\* os.Stat(name) in a process whose working directory is dir.
OsStat(files, dir, name) ==
    IF Resolve(dir, name) \in DOMAIN files THEN files[Resolve(dir, name)] ELSE "none"

\* Another directory the process may have been started in ("/w").
elsewhere == <<47, 119>>

\* The objects under the folder's root that events are reported for.
Watched == {folderPath \o pathSeparator \o p : p \in {P_a, P_af, P_ag}}

\* The disks: what lies at each watched path and at a/f under the other
\* directory; an object under a exists only if a is a directory.
Disks ==
    {d \in [Watched \cup {elsewhere \o pathSeparator \o P_af} -> {"file", "dir", "none"}] :
        \A p \in {P_af, P_ag} :
            d[folderPath \o pathSeparator \o p] # "none"
                => d[folderPath \o pathSeparator \o P_a] = "dir"}

\* watchFolder hands the events evs to its accumulator as relative paths, the
\* timer case hands them to aggregateChanges, which classifies each with
\* os.Stat; T is dirVsFiles.
Report(evs, T) ==
    /\ aggIn = AggNone /\ ~aggOut.done
    /\ aggIn' = [paths      |-> SetToSeq({relativePath(e, folderPath) : e \in evs}),
                 stat       |-> [k \in {relativePath(e, folderPath) : e \in evs} |->
                                    OsStat(disk, workDir, k)],
                 dirVsFiles |-> T]
    /\ aggOut' = [done  |-> TRUE,
                  err   |-> aggregateChanges(folderPath, aggIn'.dirVsFiles,
                                             aggIn'.stat, aggIn'.paths).err,
                  scans |-> aggregateChanges(folderPath, aggIn'.dirVsFiles,
                                             aggIn'.stat, aggIn'.paths).scans]
    /\ UNCHANGED <<accVars, histVars, ignVars, unitVars, envVars, pollVars>>

InitPipeline ==
    /\ AccInit /\ HistInit /\ AggIdle /\ IgnIdle /\ UnitInit /\ PollInit
    /\ workDir \in {folderPath, elsewhere}
    /\ disk \in Disks

NextPipeline ==
    \E evs \in (SUBSET Watched) \ {{}}, T \in 1..MaxThreshold : Report(evs, T)

SpecPipeline == InitPipeline /\ [][NextPipeline]_vars

\* The greatest event ID and the greatest number of requests in a run.
MaxID == 3
MaxPolls == 3

\* The replies of getSTEvents: json.Unmarshal gives a nil list for "null"
\* and an empty list that is not nil for "[]".
Replies ==
    [kind : {"error"}, closed : BOOLEAN, events : {<<>>}]
        \cup [kind : {"nil"}, closed : {FALSE}, events : {<<>>}]
        \cup [kind : {"list"}, closed : {FALSE}, events : SeqUpTo(1..MaxID, MaxReply)]

\* The body of the loop of watchSTEvents after getSTEvents returned r:
\* events[len(events)-1] of an empty list is an index out of range, a
\* run-time panic.
AfterReply(id, r) ==
    IF r.kind = "error"
        THEN [lastSeenID |-> IF r.closed THEN id ELSE 0, crashed |-> FALSE]
    ELSE IF r.kind = "nil"
        THEN [lastSeenID |-> id, crashed |-> FALSE]
    ELSE IF Len(r.events) = 0
        THEN [lastSeenID |-> id, crashed |-> TRUE]
    ELSE [lastSeenID |-> r.events[Len(r.events)], crashed |-> FALSE]

\* One turn of the loop of watchSTEvents; the sends of the events to the
\* accumulators are SendST.
Poll(r) ==
    /\ ~crashed
    /\ Len(requests) < MaxPolls
    /\ requests' = Append(requests, lastSeenID)
    /\ reply' = r
    /\ lastSeenID' = AfterReply(lastSeenID, r).lastSeenID
    /\ crashed' = AfterReply(lastSeenID, r).crashed
    /\ UNCHANGED <<accVars, histVars, aggVars, ignVars, unitVars, envVars>>

NextPoll == \E r \in Replies : Poll(r)

SpecPoll == Init /\ [][NextPoll]_vars

-----------------------------------------------------------------------------
(* Properties of the timer case *)

\* The batch calls among the calls of a step.
BatchCallsOf(calls) == SelectSeq(calls, LAMBDA c : c.kind = "batch")

\* The step is a firing of the timer; the unprimed state is the one the loop
\* waited in, the timer fires currInterval later.
TimerStep == lastOp' = "timer"

\* A time stamp t as it reads d ticks later.
Aged(t, d) == IF t - d < oldest THEN oldest ELSE t - d

\* At the firing the table holds at least maxFiles entries.
SaturatedAtFire == Cardinality(DOMAIN inProgress) >= maxFiles

\* At the firing the entry of p is older than 10 x debounceTimeout.
StaleAtFire(p) == inProgress[p].time - currInterval < 0 - (10 * debounceTimeout)

\* The entries the aggregated branch puts in its batch.
BatchAtFire ==
    {p \in DOMAIN inProgress : inProgress[p].fsEvent /\ p # <<>> /\ ~StaleAtFire(p)}

\* The step made a batch call that returned an error / returned nil.
BatchFailed(calls)    == \E i \in DOMAIN calls : calls[i].kind = "batch" /\ calls[i].err
BatchSucceeded(calls) == \E i \in DOMAIN calls : calls[i].kind = "batch" /\ ~calls[i].err

\* The table after the step holds exactly the entries of keep, each as it
\* was, d ticks older.
TableIs(keep, d) ==
    /\ DOMAIN inProgress' = keep
    /\ \A p \in keep :
          /\ inProgress'[p].fsEvent = inProgress[p].fsEvent
          /\ inProgress'[p].time = Aged(inProgress[p].time, d)

\* C4: when the timer fires with at least maxFiles entries in the table, the
\* cycle makes exactly one batch call and its target list is exactly [""].
C4_SaturationFallback ==
    [][(TimerStep /\ SaturatedAtFire) =>
          /\ Len(BatchCallsOf(notified')) = 1
          /\ BatchCallsOf(notified')[1].subs = <<EMPTY>>]_vars

\* C4 witness: a whole-folder call was made from a saturated table (the call
\* failed, so the table is still as large).
C4_Witness ==
    /\ lastOp = "timer"
    /\ Cardinality(DOMAIN inProgress) >= maxFiles
    /\ BatchCallsOf(notified) = <<Call("batch", <<EMPTY>>, TRUE)>>

\* C5: the table never holds more than maxFiles entries.
C5_BoundedTable == Cardinality(DOMAIN inProgress) <= maxFiles

\* C6 as claimed: after a failed batch call the table holds exactly the
\* entries it held when the timer fired, the reminder deadline is the one of
\* before the firing, and configSyncTimeout has passed.
C6_UntouchedOnFailure ==
    [][(TimerStep /\ BatchFailed(notified')) =>
          /\ TableIs(DOMAIN inProgress, currInterval + configSyncTimeout)
          /\ nextScanTime' =
                ElapseDeadline(nextScanTime, currInterval + configSyncTimeout)]_vars

\* C6 amended: after a failed batch call no entry is removed on account of
\* the call: the table holds the entries that survived the clean-up of that
\* cycle (all entries in the saturated branch), the deadline is the one the
\* reminder of that cycle left, and configSyncTimeout has passed.
C6_RetainedOnFailure ==
    [][(TimerStep /\ BatchFailed(notified')) =>
          /\ TableIs({p \in DOMAIN inProgress :
                         SaturatedAtFire \/ (p # <<>> /\ ~StaleAtFire(p))},
                     currInterval + configSyncTimeout)
          /\ nextScanTime' =
                IF \E i \in DOMAIN notified' : notified'[i].kind = "reminder"
                    THEN delayScanInterval - configSyncTimeout
                    ELSE ElapseDeadline(nextScanTime, currInterval + configSyncTimeout)]_vars

\* C6 witness: an aggregated batch call failed and its paths are still tracked.
C6_Witness ==
    /\ lastOp = "timer"
    /\ \E i \in DOMAIN notified :
          /\ notified[i].kind = "batch" /\ notified[i].err
          /\ notified[i].subs # <<EMPTY>>
    /\ \E p \in DOMAIN inProgress : inProgress[p].fsEvent

\* C7: after a failed batch call, when the next step is the timer firing
\* again (no event in between), the callback is called again with the batch.
C7_RetryAfterFailure ==
    [][(lastOp = "timer" /\ BatchFailed(notified) /\ TimerStep) =>
          \E i \in DOMAIN notified, j \in DOMAIN notified' :
              /\ notified[i].kind = "batch" /\ notified[i].err
              /\ notified'[j].kind = "batch"
              /\ notified'[j].subs = notified[i].subs]_vars

\* C8 as claimed: after a successful batch call every Remote entry is kept;
\* exactly the batch is removed (aggregated branch) or every LocalFS entry
\* (saturated branch); the deadline is now + delayScanInterval.
C8_RemovedOnSuccess ==
    [][(TimerStep /\ BatchSucceeded(notified')) =>
          /\ TableIs(IF SaturatedAtFire
                        THEN {p \in DOMAIN inProgress : ~inProgress[p].fsEvent}
                        ELSE (DOMAIN inProgress) \ BatchAtFire,
                     currInterval)
          /\ nextScanTime' = delayScanInterval]_vars

\* C8 amended: after a successful batch call the table holds the Remote
\* entries only: all of them in the saturated branch, those that are neither
\* expired nor keyed by "" in the aggregated branch (the clean-up before the
\* call drops expired and invalid entries of either origin); the deadline is
\* now + delayScanInterval.
C8_RemoteKeptOnSuccess ==
    [][(TimerStep /\ BatchSucceeded(notified')) =>
          /\ TableIs({p \in DOMAIN inProgress :
                         /\ ~inProgress[p].fsEvent
                         /\ SaturatedAtFire \/ (p # <<>> /\ ~StaleAtFire(p))},
                     currInterval)
          /\ nextScanTime' = delayScanInterval]_vars

\* C8 witness: an aggregated batch call succeeded and a Remote entry is kept.
C8_Witness ==
    /\ lastOp = "timer"
    /\ \E i \in DOMAIN notified :
          /\ notified[i].kind = "batch" /\ ~notified[i].err
          /\ notified[i].subs # <<EMPTY>>
    /\ \E p \in DOMAIN inProgress : ~inProgress[p].fsEvent
    /\ nextScanTime = delayScanInterval

\* C9 as claimed: a firing that finds local events tracked and meets no
\* error makes exactly one batch call, and the firing that follows a
\* successful batch call without an event in between makes none.
C9_ExactlyOnce ==
    [][/\ (TimerStep /\ (\E p \in DOMAIN inProgress : inProgress[p].fsEvent)
                     /\ ~BatchFailed(notified'))
            => Len(BatchCallsOf(notified')) = 1
       /\ (lastOp = "timer" /\ BatchSucceeded(notified) /\ TimerStep)
            => BatchCallsOf(notified') = <<>>]_vars

\* C9 amended: a firing makes at most one batch call, and makes one exactly
\* when the table is saturated or holds a LocalFS entry that is neither
\* expired nor keyed by ""; the firing that follows a successful batch call
\* without an event in between makes a batch call only from a table that is
\* still at or above maxFiles.
C9_AtMostOnce ==
    [][/\ TimerStep =>
            /\ Len(BatchCallsOf(notified')) <= 1
            /\ Len(BatchCallsOf(notified')) = 1
                  <=> (DOMAIN inProgress # {} /\ (SaturatedAtFire \/ BatchAtFire # {}))
       /\ (lastOp = "timer" /\ BatchSucceeded(notified) /\ TimerStep
                            /\ BatchCallsOf(notified') # <<>>)
            => SaturatedAtFire]_vars

\* C9 witness: a burst of two local events was reported by one successful
\* call naming both.
C9_Witness ==
    /\ lastOp = "timer"
    /\ BatchCallsOf(notified) = <<Call("batch", <<P_af, P_ag>>, FALSE)>>
    /\ inProgress = <<>>

\* C24: the loop has no terminal state: whatever happened before, Notifier
\* failures included, it takes the next remote event, the next local event
\* and the next expiry of its timer, whatever the Notifier answers then.
C24_NoTerminalState ==
    /\ \A item \in STEvents(EventPaths) : ENABLED StEvent(item, 0)
    /\ \A item \in EventPaths : ENABLED FsEvent(item, 0)
    /\ \A stat \in FileSystems : \A remErr, cbErr \in BOOLEAN :
           \E r \in {Reminder(ElapseDeadline(nextScanTime, currInterval), remErr)} :
           \E b \in {TimerBatch(ElapseTable(inProgress, currInterval), stat, cbErr)} :
               ENABLED TimerCase(r, b)

\* C24 witness: the reminder and the batch of one firing both failed, and
\* the table held more than maxFiles entries.
C24_Witness ==
    /\ lastOp = "timer"
    /\ \E i, j \in DOMAIN notified :
           /\ notified[i].kind = "reminder" /\ notified[i].err
           /\ notified[j].kind = "batch" /\ notified[j].err
    /\ Cardinality(DOMAIN inProgress) > maxFiles

\* C25: when the timer fires on a table whose entries are all of Remote
\* origin, whatever their number, no batch call is made and the table keeps
\* exactly its entries that are not stale.
C25_EmptyBatch ==
    [][(/\ TimerStep
        /\ DOMAIN inProgress # {}
        /\ \A p \in DOMAIN inProgress : ~inProgress[p].fsEvent) =>
          /\ BatchCallsOf(notified') = <<>>
          /\ TableIs({p \in DOMAIN inProgress : ~StaleAtFire(p)}, currInterval)]_vars

\* C28: whenever the loop waits, the table is empty and the interval is the
\* slow one, or the table is not empty and the interval is the fast one.
C28_TwoStates ==
    \/ DOMAIN inProgress = {} /\ currInterval = delayScanInterval
    \/ DOMAIN inProgress # {} /\ currInterval = debounceTimeout

\* C28, amended: the interval is the slow or the fast one, and while an entry
\* of local origin is tracked it is the fast one.
C28_LocalImpliesFast ==
    /\ currInterval \in {delayScanInterval, debounceTimeout}
    /\ (\E p \in DOMAIN inProgress : inProgress[p].fsEvent) =>
           currInterval = debounceTimeout

\* C28 witness: the timer fired, its batch call failed, and the local entry
\* that stays tracked goes with the fast interval.
C28_Witness ==
    /\ lastOp = "timer"
    /\ \E i \in DOMAIN notified : notified[i].kind = "batch" /\ notified[i].err
    /\ \E p \in DOMAIN inProgress : inProgress[p].fsEvent
    /\ currInterval = debounceTimeout

\* C29: a firing of the timer that finds the table empty sets the interval to
\* delayScanInterval, makes no batch call and leaves the table empty; no other
\* step takes the interval to delayScanInterval.
C29_BackToSlow ==
    [][/\ (TimerStep /\ DOMAIN inProgress = {}) =>
             /\ currInterval' = delayScanInterval
             /\ BatchCallsOf(notified') = <<>>
             /\ DOMAIN inProgress' = {}
       /\ (currInterval # delayScanInterval /\ currInterval' = delayScanInterval) =>
             (TimerStep /\ DOMAIN inProgress = {})]_vars

\* C29 witness: the timer fired debounceTimeout after the deadline of the
\* reminder was set, found the table empty, and the interval is slow again.
C29_Witness ==
    /\ lastOp = "timer"
    /\ DOMAIN inProgress = {}
    /\ currInterval = delayScanInterval
    /\ nextScanTime = delayScanInterval - debounceTimeout

\* A target of the call covers p: it is p, a directory above p, or the root.
CoveredBy(call, p) ==
    \E k \in DOMAIN call.subs :
        \/ call.subs[k] = p
        \/ call.subs[k] = <<>>
        \/ IsDescendant(p, call.subs[k])

\* C30: a firing with fewer than maxFiles entries removes every stale entry,
\* whatever its origin, and reports none of them; the batch is exactly the
\* entries of local origin that are not stale: a call is made if and only if
\* there is one, it covers each of them, and they are what a successful call
\* removes; the entries of Remote origin that are not stale stay.
C30_StalenessFilter ==
    [][(TimerStep /\ DOMAIN inProgress # {} /\ ~SaturatedAtFire) =>
          LET fresh  == {p \in DOMAIN inProgress : ~StaleAtFire(p)}
              batch  == {p \in fresh : inProgress[p].fsEvent}
              remote == {p \in fresh : ~inProgress[p].fsEvent}
              calls  == BatchCallsOf(notified')
          IN  /\ (calls = <<>>) <=> (batch = {})
              /\ Len(calls) <= 1
              /\ calls # <<>> => \A p \in batch : CoveredBy(calls[1], p)
              /\ DOMAIN inProgress' =
                     IF BatchFailed(notified') THEN batch \cup remote ELSE remote]_vars

\* C30, amended: as C30, but the entry keyed by "" is removed like a stale
\* one and never belongs to the batch.
C30_StalenessFilterValid ==
    [][(TimerStep /\ DOMAIN inProgress # {} /\ ~SaturatedAtFire) =>
          LET fresh  == {p \in DOMAIN inProgress : p # <<>> /\ ~StaleAtFire(p)}
              batch  == {p \in fresh : inProgress[p].fsEvent}
              remote == {p \in fresh : ~inProgress[p].fsEvent}
              calls  == BatchCallsOf(notified')
          IN  /\ (calls = <<>>) <=> (batch = {})
              /\ Len(calls) <= 1
              /\ calls # <<>> => \A p \in batch : CoveredBy(calls[1], p)
              /\ DOMAIN inProgress' =
                     IF BatchFailed(notified') THEN batch \cup remote ELSE remote]_vars

\* C30 witness: a firing below maxFiles reported exactly one path and the one
\* entry left is of Remote origin and not stale.
C30_Witness ==
    /\ lastOp = "timer"
    /\ \E i \in DOMAIN notified :
          /\ notified[i].kind = "batch" /\ ~notified[i].err
          /\ Len(notified[i].subs) = 1 /\ notified[i].subs[1] # <<>>
    /\ Cardinality(DOMAIN inProgress) = 1
    /\ \A p \in DOMAIN inProgress :
          ~inProgress[p].fsEvent /\ inProgress[p].time >= 0 - (10 * debounceTimeout)

\* C31: once events have stopped and the Notifier succeeds, every firing of
\* the timer on a table that is not empty brings the table nearer to empty: it
\* removes an entry, or the entries it keeps have aged towards the staleness
\* cutoff past which they are removed; so no table is kept for ever.
C31_NoIndefiniteRetention ==
    [][(/\ TimerStep
        /\ DOMAIN inProgress # {}
        /\ \A i \in DOMAIN notified' : ~notified'[i].err) =>
          \/ /\ DOMAIN inProgress' \subseteq DOMAIN inProgress
             /\ DOMAIN inProgress' # DOMAIN inProgress
          \/ \E p \in DOMAIN inProgress' : inProgress'[p].time < inProgress[p].time]_vars

\* C32: a firing of the timer at which delayScan > 0 and the deadline of the
\* reminder has passed makes exactly one reminder call, for [".stfolder"], ahead
\* of any batch call, and sets the deadline to delayScanInterval after the
\* firing whether or not the call succeeded; a firing at which the deadline has
\* not passed makes no reminder call.
C32_Reminder ==
    [][TimerStep =>
          LET reminders == SelectSeq(notified', LAMBDA c : c.kind = "reminder") IN
          IF delayScan > 0 /\ nextScanTime - currInterval < 0
              THEN /\ Len(reminders) = 1
                   /\ notified'[1].kind = "reminder"
                   /\ notified'[1].subs = <<stfolder>>
                   /\ nextScanTime' =
                          IF \E i \in DOMAIN notified' :
                                 notified'[i].kind = "batch" /\ notified'[i].err
                              THEN delayScanInterval - configSyncTimeout
                              ELSE delayScanInterval
              ELSE reminders = <<>>]_vars

\* C32 witness: the reminder call of a firing failed, a batch call followed
\* it, and the deadline is a full delayScanInterval ahead.
C32_Witness ==
    /\ lastOp = "timer"
    /\ Len(notified) = 2
    /\ notified[1].kind = "reminder" /\ notified[1].err
    /\ notified[2].kind = "batch" /\ ~notified[2].err
    /\ nextScanTime = delayScanInterval

\* C33: aggregateChanges returns an error for an empty list of paths and
\* calls nothing; the timer case never hands it an empty list: a firing below
\* maxFiles whose batch is empty makes no batch call and does not take the
\* error path (no sleep: the entries kept and the deadline are only as old as
\* the firing makes them).
C33_EmptyListIsError ==
    [][/\ \A stat \in FileSystems :
              aggregateChanges(folderPath, dirVsFiles, stat, <<>>)
                  = [err |-> TRUE, scans |-> <<>>]
       /\ (/\ TimerStep
           /\ DOMAIN inProgress # {}
           /\ ~SaturatedAtFire
           /\ BatchAtFire = {}) =>
             /\ BatchCallsOf(notified') = <<>>
             /\ TableIs({p \in DOMAIN inProgress : p # <<>> /\ ~StaleAtFire(p)},
                        currInterval)
             /\ nextScanTime' = IF nextScanTime - currInterval < 0
                                    THEN delayScanInterval
                                    ELSE nextScanTime - currInterval]_vars

\* C33 witness: a firing below maxFiles found nothing to report and left a
\* Remote entry waiting, at the fast interval.
C33_Witness ==
    /\ lastOp = "timer"
    /\ \A i \in DOMAIN notified : notified[i].kind # "batch"
    /\ DOMAIN inProgress # {}
    /\ \A p \in DOMAIN inProgress : ~inProgress[p].fsEvent /\ inProgress[p].time = -1
    /\ currInterval = debounceTimeout

-----------------------------------------------------------------------------
(* Properties of the remote events *)

\* C26: a remote event with Finished set and a path p that is not empty
\* removes p from the table, whatever the origin of its entry and the size of
\* the table, and changes nothing else; when p is not tracked nothing changes
\* at all.
C26_FinishedRemoves ==
    [][(lastOp' = "st" /\ lastItem'.Finished /\ lastItem'.Path # <<>>) =>
          /\ inProgress' = [q \in (DOMAIN inProgress) \ {lastItem'.Path} |->
                               inProgress[q]]
          /\ currInterval' = currInterval
          /\ nextScanTime' = nextScanTime
          /\ notified' = <<>>]_vars

\* C26 witness: ItemFinished was received for a path other than "" while the
\* table, which holds a local entry, is at maxFiles or above.
C26_Witness ==
    /\ lastOp = "st" /\ lastItem.Finished /\ lastItem.Path # <<>>
    /\ Cardinality(DOMAIN inProgress) >= maxFiles
    /\ \E q \in DOMAIN inProgress : inProgress[q].fsEvent

\* C27: a remote event with the empty path sets the interval to
\* debounceTimeout and does nothing else, whatever its Finished flag.
C27_EmptyPathSignal ==
    [][(lastOp' = "st" /\ lastItem'.Path = <<>>) =>
          /\ currInterval' = debounceTimeout
          /\ inProgress' = inProgress
          /\ nextScanTime' = nextScanTime
          /\ notified' = <<>>]_vars

\* C27 witness: the signal came with Finished set while "" was tracked and
\* the interval is the fast one.
C27_Witness ==
    /\ lastOp = "st" /\ lastItem = [Path |-> <<>>, Finished |-> TRUE]
    /\ <<>> \in DOMAIN inProgress
    /\ currInterval = debounceTimeout

\* C36: an entry is destroyed when the stream of the opposite origin reports
\* its path: ItemStarted for a path tracked with local origin leaves the path
\* untracked, and so does a local event for a path tracked with Remote origin.
C36_OppositeOriginDestroys ==
    [][/\ (/\ lastOp' = "st" /\ ~lastItem'.Finished /\ lastItem'.Path # <<>>
           /\ lastItem'.Path \in DOMAIN inProgress
           /\ inProgress[lastItem'.Path].fsEvent)
          => lastItem'.Path \notin DOMAIN inProgress'
       /\ (/\ lastOp' = "fs"
           /\ lastItem'.Path \in DOMAIN inProgress
           /\ ~inProgress[lastItem'.Path].fsEvent)
          => lastItem'.Path \notin DOMAIN inProgress']_vars

\* C36, amended: a local event for a path tracked with Remote origin leaves
\* the path untracked; ItemStarted for a path tracked with local origin leaves
\* it tracked: the entry becomes a Remote one observed now, or stays as it
\* is when the table holds more than maxFiles entries.
C36_StartedTakesOver ==
    [][/\ (/\ lastOp' = "st" /\ ~lastItem'.Finished /\ lastItem'.Path # <<>>
           /\ lastItem'.Path \in DOMAIN inProgress
           /\ inProgress[lastItem'.Path].fsEvent)
          => /\ lastItem'.Path \in DOMAIN inProgress'
             /\ inProgress'[lastItem'.Path] =
                    IF Cardinality(DOMAIN inProgress) > maxFiles
                        THEN inProgress[lastItem'.Path]
                        ELSE [fsEvent |-> FALSE, time |-> 0]
       /\ (/\ lastOp' = "fs"
           /\ lastItem'.Path \in DOMAIN inProgress
           /\ ~inProgress[lastItem'.Path].fsEvent)
          => lastItem'.Path \notin DOMAIN inProgress']_vars

\* C36 witness: ItemStarted was received for a path that is still tracked
\* with local origin (the table being above maxFiles).
C36_Witness ==
    /\ lastOp = "st" /\ ~lastItem.Finished /\ lastItem.Path # <<>>
    /\ lastItem.Path \in DOMAIN inProgress
    /\ inProgress[lastItem.Path].fsEvent

\* C39: a local event with the empty path is tracked like any other (when
\* the table is not above maxFiles); a firing of the timer below maxFiles
\* removes the entry of "" and does not put it in the batch: with no other
\* local entry that is not stale, no batch call is made.
C39_EmptyPathDropped ==
    [][/\ (/\ lastOp' = "fs" /\ lastItem'.Path = <<>>
           /\ <<>> \notin DOMAIN inProgress
           /\ Cardinality(DOMAIN inProgress) <= maxFiles)
          => /\ DOMAIN inProgress' = DOMAIN inProgress \cup {<<>>}
             /\ inProgress'[<<>>] = [fsEvent |-> TRUE, time |-> 0]
       /\ (/\ TimerStep
           /\ <<>> \in DOMAIN inProgress
           /\ ~SaturatedAtFire)
          => /\ <<>> \notin DOMAIN inProgress'
             /\ BatchAtFire = {} => BatchCallsOf(notified') = <<>>
             /\ \A i \in DOMAIN notified' :
                    notified'[i].kind = "batch" =>
                        \A p \in BatchAtFire : CoveredBy(notified'[i], p)]_vars

\* C39 witness: the local event with the empty path was received and "" is
\* the one tracked entry.
C39_Witness ==
    /\ lastOp = "fs" /\ lastItem.Path = <<>>
    /\ DOMAIN inProgress = {<<>>}
    /\ inProgress[<<>>] = [fsEvent |-> TRUE, time |-> 0]

-----------------------------------------------------------------------------
(* Properties of the remote/local interplay *)

\* The call lists p among its targets.
Lists(call, p) == \E k \in DOMAIN call.subs : call.subs[k] = p

\* C1 as claimed: a path whose Remote entry was removed by a local event is
\* not tracked as a local change, and no call lists it until a further local
\* event on it is processed.
C1_Suppression ==
    \A p \in suppressed :
        /\ p \in DOMAIN inProgress => ~inProgress[p].fsEvent
        /\ \A i \in DOMAIN notified : ~Lists(notified[i], p)

\* C1 amended: a path whose Remote entry was removed by a local event is not
\* tracked as a local change by that event, and until a further local event
\* on it is processed a call lists it only when the batch of the call holds
\* a path beneath it (the rollup of changed files into their directory).
C1_SuppressionButRollup ==
    [][/\ \A p \in suppressed' :
              p \in DOMAIN inProgress' => ~inProgress'[p].fsEvent
       /\ TimerStep =>
              \A p \in suppressed : \A i \in DOMAIN notified' :
                  Lists(notified'[i], p) =>
                      \E q \in BatchAtFire : IsDescendant(q, p)]_vars

\* C1 witness: the Remote entry of a was removed by a local event on a, and a
\* call then named a for the files changed beneath it.
C1_Witness ==
    /\ P_a \in suppressed
    /\ P_a \notin DOMAIN inProgress
    /\ lastOp = "timer"
    /\ \E i \in DOMAIN notified : Lists(notified[i], P_a)

\* C2: between ItemStarted(p) and ItemFinished(p) no call lists p. Stated for
\* the files, which no rollup can name.
C2_NoEchoWhileStarted ==
    \A p \in started \cap {P_af, P_ag} :
        \A i \in DOMAIN notified : ~Lists(notified[i], p)

\* C3: a local change on a path no remote event touches is not dropped
\* before a call has covered it: it stays tracked as a local change.
C3_NoChangeDropped ==
    \A p \in owed : p \in DOMAIN inProgress /\ inProgress[p].fsEvent

\* C37: a local event discarded because the table was full is not lost: the
\* next successful batch call covers its path (the claim: it asks for a scan
\* of the whole folder, "", which covers every path), whatever remote events
\* came in between.
C37_DiscardCovered ==
    [][(TimerStep /\ owed # {}) =>
          \A i \in DOMAIN notified' :
              (notified'[i].kind = "batch" /\ ~notified'[i].err)
                  => \A p \in owed : CoveredBy(notified'[i], p)]_vars

-----------------------------------------------------------------------------
(* Properties of the aggregator *)

\* The directory a path lies directly in ("" for the root).
ParentOf(p) == DotToEmpty(Dir(p))

\* The batch paths that are existing regular files directly inside d.
FilesIn(d) ==
    {p \in Range(aggIn.paths) : ParentOf(p) = d /\ aggIn.stat[p] = "file"}

\* p lies beneath d.
Beneath(p, d) == IF d = <<>> THEN p # <<>> ELSE IsDescendant(p, d)

\* C10: for a directory d that is not in the batch, whose only changed
\* descendants are n >= 1 existing regular files directly inside it, and no
\* ancestor of which is reported: with n >= T the targets hold d and none of
\* the files, with n < T they hold the n files and not d.
C10_ThresholdBoundary ==
    aggOut.done =>
        \A d \in {EMPTY, P_a} :
            (/\ d \notin Range(aggIn.paths)
             /\ FilesIn(d) # {}
             /\ \A p \in Range(aggIn.paths) : Beneath(p, d) => p \in FilesIn(d)
             /\ \A t \in Range(aggOut.scans) : ~Beneath(d, t))
            => IF Cardinality(FilesIn(d)) >= aggIn.dirVsFiles
                   THEN d \in Range(aggOut.scans)
                        /\ FilesIn(d) \cap Range(aggOut.scans) = {}
                   ELSE FilesIn(d) \subseteq Range(aggOut.scans)
                        /\ d \notin Range(aggOut.scans)

\* The batch is one existing regular file inside a subdirectory.
SingleFile ==
    /\ Len(aggIn.paths) = 1
    /\ aggIn.stat[aggIn.paths[1]] = "file"
    /\ ParentOf(aggIn.paths[1]) # <<>>

\* C11 as claimed: a batch of one existing regular file inside a
\* subdirectory gives one call whose only target is the file, for every
\* threshold T >= 1.
C11_SingleFile ==
    (aggOut.done /\ SingleFile) =>
        ~aggOut.err /\ aggOut.scans = <<aggIn.paths[1]>>

\* C11 amended: a batch of one existing regular file inside a subdirectory
\* gives one call with one target: the file itself for every threshold
\* T >= 2, the directory holding the file for T = 1 (one changed file reaches
\* the threshold of its directory).
C11_SingleFileOrParent ==
    (aggOut.done /\ SingleFile) =>
        /\ ~aggOut.err
        /\ aggOut.scans = IF aggIn.dirVsFiles >= 2 THEN <<aggIn.paths[1]>>
                          ELSE <<ParentOf(aggIn.paths[1])>>

\* C11 witness: the file a/f alone, with T = 2, was reported as [a/f].
C11_Witness ==
    /\ aggOut.done
    /\ aggIn.paths = <<P_af>> /\ aggIn.stat[P_af] = "file" /\ aggIn.dirVsFiles = 2
    /\ aggOut.scans = <<P_af>>

\* C12: when the batch holds two directories, neither an ancestor of the
\* other, and besides them only paths beneath them, the targets are exactly
\* the two directories, in order, for any threshold.
C12_TwoDirectories ==
    aggOut.done =>
        \A x, y \in Range(aggIn.paths) :
            (/\ StrLess(x, y)
             /\ aggIn.stat[x] = "dir" /\ aggIn.stat[y] = "dir"
             /\ ~IsDescendant(x, y) /\ ~IsDescendant(y, x)
             /\ \A p \in Range(aggIn.paths) :
                    p \in {x, y} \/ IsDescendant(p, x) \/ IsDescendant(p, y))
            => aggOut.scans = <<x, y>>

\* The batch is one of existing regular files two and three levels down.
DeepBatch ==
    /\ aggIn.paths # <<>>
    /\ Range(aggIn.paths) \subseteq DeepPaths

\* The batch of TestDebouncedParentDirectoryWatch4: a/e, a/b/d, three more
\* files in a/b and one in a/b/c.
Watch4Batch ==
    /\ Range(aggIn.paths) = {P_ae, P_abd, P_abf, P_abg, P_abh, P_abci}
    /\ aggIn.dirVsFiles = 3

\* The batch paths outside d.
Outside(d) == {x \in Range(aggIn.paths) : ~IsDescendant(x, d)}

\* The directories of the batches of files.
DeepDirs == {P_a, P_ab, P_abc, P_ac, P_ad}

\* No directory x lies in holds T changed files itself.
Sparse(x) ==
    \A e \in DeepDirs :
        IsDescendant(x, e) => Cardinality(FilesIn(e)) < aggIn.dirVsFiles

\* The weight the directory a gathers: the changed files directly in it and,
\* from the first of these in sorted order on, every changed file in its
\* subdirectories.
WeightOfA ==
    Cardinality(FilesIn(P_a)) +
    Cardinality({p \in Range(aggIn.paths) :
                    /\ IsDescendant(ParentOf(p), P_a)
                    /\ \E x \in FilesIn(P_a) : StrLess(x, p)})

C14_ParentAggregation ==
    (aggOut.done /\ DeepBatch) =>
        ((/\ Range(aggIn.paths) = FilesIn(P_ab) \cup FilesIn(P_ac)
          /\ FilesIn(P_ab) # {} /\ FilesIn(P_ac) # {}
          /\ Cardinality(FilesIn(P_ab)) + Cardinality(FilesIn(P_ac)) > aggIn.dirVsFiles)
         => aggOut.scans = <<P_a>>)

\* The batch holds files of the subdirectories a/b, a/c and a/d only, no two
\* of them in the same subdirectory.
DistinctSubdirs ==
    /\ DeepBatch
    /\ \A p \in Range(aggIn.paths) : ParentOf(p) \in {P_ab, P_ac, P_ad}
    /\ \A p, q \in Range(aggIn.paths) : ParentOf(p) = ParentOf(q) => p = q

C16_RootCollapse ==
    aggOut.done =>
        /\ EMPTY \in Range(aggOut.scans) => aggOut.scans = <<EMPTY>>
        /\ (FilesIn(EMPTY) # {} /\ Cardinality(FilesIn(EMPTY)) >= aggIn.dirVsFiles)
              => aggOut.scans = <<EMPTY>>

\* C16 witness: two files changed in the root and a path beneath a, with
\* T = 2, were reported as [""].
C16_Witness ==
    /\ aggOut.done
    /\ aggIn.dirVsFiles = 2
    /\ Range(aggIn.paths) = {P_ax, P_b, P_af}
    /\ aggIn.stat[P_ax] = "file" /\ aggIn.stat[P_b] = "file"
    /\ aggOut.scans = <<EMPTY>>

\* C17: every batch path that is an existing directory is a target or lies
\* beneath one, and no batch path beneath a target is itself a target.
C17_DirectoryReported ==
    aggOut.done =>
        /\ \A p \in Range(aggIn.paths) :
              aggIn.stat[p] = "dir" =>
                  \E t \in Range(aggOut.scans) : t = p \/ Beneath(p, t)
        /\ \A t \in Range(aggOut.scans) : \A p \in Range(aggIn.paths) :
              IsDescendant(p, t) => p \notin Range(aggOut.scans)

\* The batch paths that no longer exist.
Deleted == {p \in Range(aggIn.paths) : aggIn.stat[p] = "none"}

\* The batch consists of deleted paths directly inside the directory a.
DeletedInA ==
    /\ aggIn.paths # <<>>
    /\ Range(aggIn.paths) = Deleted
    /\ \A p \in Deleted : ParentOf(p) = P_a

\* C18 as claimed: aggregation of a non-empty batch never fails; every
\* deleted path is a target; n deleted paths directly inside a, a not in the
\* batch, are n targets, also when n >= T.
C18_DeletedReported ==
    (aggOut.done /\ aggIn.paths # <<>>) =>
        /\ ~aggOut.err
        /\ \A p \in Deleted : p \in Range(aggOut.scans)
        /\ DeletedInA => aggOut.scans = SortStrings(aggIn.paths)

\* C18 amended: aggregation of a non-empty batch never fails; every deleted
\* path is a target or lies beneath a target; n deleted paths directly inside
\* a, a not in the batch, are n targets, also when n >= T.
C18_DeletedCovered ==
    (aggOut.done /\ aggIn.paths # <<>>) =>
        /\ ~aggOut.err
        /\ \A p \in Deleted :
              \E t \in Range(aggOut.scans) : t = p \/ Beneath(p, t)
        /\ DeletedInA => aggOut.scans = SortStrings(aggIn.paths)

\* C18 witness: three deleted paths in a, with T = 2, were reported one by
\* one.
C18_Witness ==
    /\ aggOut.done
    /\ aggIn.dirVsFiles = 2
    /\ Deleted = {P_af, P_ag, P_ah}
    /\ aggOut.scans = <<P_af, P_ag, P_ah>>

\* C19: for a non-empty batch the target list is not empty and every batch
\* path is a target or lies beneath a target.
C19_Coverage ==
    (aggOut.done /\ aggIn.paths # <<>>) =>
        /\ aggOut.scans # <<>>
        /\ \A p \in Range(aggIn.paths) :
              \E t \in Range(aggOut.scans) : t = p \/ Beneath(p, t)

\* C19 witness: two files changed in a, with T = 2, are covered by the one
\* target a.
C19_Witness ==
    /\ aggOut.done
    /\ aggIn.dirVsFiles = 2
    /\ Range(aggIn.paths) = {P_af, P_ag}
    /\ aggOut.scans = <<P_a>>

\* C20: no target of a call lies beneath another target of the same call.
C20_NoRedundantTargets ==
    aggOut.done =>
        \A t, u \in Range(aggOut.scans) : ~IsDescendant(u, t)

-----------------------------------------------------------------------------
(* Properties of the ignore filter *)

\* C21: shouldIgnore returns true exactly when the path is not empty and
\* either a literal is a substring of it, or an include-pattern matches it
\* and no exclude-pattern does; the order of the patterns plays no part.
C21_IgnoreIff ==
    ignOut.done =>
        (ignOut.ignored <=>
            /\ ignIn.path # <<>>
            /\ \/ \E i \in DOMAIN ignIn.ignorePaths :
                      Contains(ignIn.path, ignIn.ignorePaths[i])
               \/ /\ \E i \in DOMAIN ignIn.ignorePatterns :
                         /\ ignIn.ignorePatterns[i].include
                         /\ ignIn.path \in ignIn.ignorePatterns[i].match
                  /\ ~\E j \in DOMAIN ignIn.ignorePatterns :
                         /\ ~ignIn.ignorePatterns[j].include
                         /\ ignIn.path \in ignIn.ignorePatterns[j].match)

\* C21 witness: a path matched by an include-pattern and by a later
\* exclude-pattern was kept.
C21_Witness ==
    /\ ignOut.done /\ ~ignOut.ignored
    /\ ignIn.path = P_a
    /\ Len(ignIn.ignorePatterns) = 2
    /\ ignIn.ignorePatterns[1].include /\ P_a \in ignIn.ignorePatterns[1].match
    /\ ~ignIn.ignorePatterns[2].include /\ P_a \in ignIn.ignorePatterns[2].match

-----------------------------------------------------------------------------
(* Properties of the channels *)

\* C22: within one unit events are processed in the order in which they were
\* offered, whichever of the two channels they were offered on.
C22_ArrivalOrder ==
    \A u \in Units : \A i, j \in DOMAIN processed[u] :
        i < j => processed[u][i].stamp < processed[u][j].stamp

\* C22, amended: the events of one channel are processed in the order in
\* which they were offered, an event offered to a parked accumulator is
\* processed before anything offered later, and two events are processed
\* against their order only if they came on different channels and both
\* senders had to block.
C22_OrderPerStream ==
    \A u \in Units : \A i, j \in DOMAIN processed[u] :
        (i < j /\ processed[u][i].stamp > processed[u][j].stamp) =>
            /\ processed[u][i].stream # processed[u][j].stream
            /\ processed[u][i].waited /\ processed[u][j].waited

\* C22 witness: a unit processed a remote event and a local event that were
\* both blocked, the remote one offered first and processed first.
C22_Witness ==
    \E u \in Units :
        /\ Len(processed[u]) >= 2
        /\ processed[u][1].stream = "st" /\ processed[u][2].stream = "fs"
        /\ processed[u][1].waited /\ processed[u][2].waited
        /\ processed[u][1].stamp < processed[u][2].stamp

\* C23: while the accumulator of one unit is busy, a remote event fetched for
\* another unit whose accumulator waits is not held up behind a send to the
\* busy one.
C23_UnitIndependence ==
    \A u, v \in Units :
        (/\ u # v
         /\ phase[u] = "busy"
         /\ phase[v] = "select"
         /\ \E i \in DOMAIN backlog : backlog[i] = v)
        => stOffer.unit # u

\* C34: in a batch of existing regular files the score of every tracked
\* directory, the root "" included, is the number of the changed files beneath
\* it at any depth, wherever they fall in the sorted order.
C34_UpwardPropagation ==
    (/\ aggOut.done
     /\ aggIn.paths # <<>>
     /\ \A p \in Range(aggIn.paths) : aggIn.stat[p] = "file") =>
        \A d \in {ParentOf(p) : p \in Range(aggIn.paths)} :
            MapGet(TrackedPaths(folderPath, aggIn.dirVsFiles, aggIn.stat, aggIn.paths), d)
                = Cardinality({p \in Range(aggIn.paths) : Beneath(p, d)})

\* The greatest batch all of whose orders and repetitions are tried.
MaxShuffle == 2

\* C38: the target list depends on the set of the batch paths, their
\* classification and the threshold only: every order of the batch, with or
\* without a path repeated, gives the same list; the list is in ascending
\* order of strings and names no target twice.
C38_Deterministic ==
    (aggOut.done /\ ~aggOut.err) =>
        /\ \A i \in 1..(Len(aggOut.scans) - 1) :
               StrLess(aggOut.scans[i], aggOut.scans[i + 1])
        /\ Cardinality(Range(aggIn.paths)) <= MaxShuffle =>
               \A seq \in SeqUpTo(Range(aggIn.paths), Len(aggIn.paths) + 1) :
                   Range(seq) = Range(aggIn.paths) =>
                       aggregateChanges(folderPath, aggIn.dirVsFiles, aggIn.stat, seq).scans
                           = aggOut.scans

\* C38 witness: a batch of MaxShuffle paths was aggregated into two targets.
C38_Witness ==
    /\ aggOut.done /\ ~aggOut.err
    /\ Cardinality(Range(aggIn.paths)) = MaxShuffle
    /\ Len(aggOut.scans) = 2

-----------------------------------------------------------------------------
(* Properties of the pipeline from watchFolder to aggregateChanges *)

\* C35: every changed path is classified by the object at its absolute
\* location under the folder's root, whatever the working directory of the
\* process: an existing regular file as a file, an existing directory as a
\* directory.
C35_AbsoluteClassification ==
    aggOut.done =>
        \A k \in Range(aggIn.paths) :
            aggIn.stat[k] = disk[folderPath \o pathSeparator \o k]

-----------------------------------------------------------------------------
(* Properties of the event poll *)

\* C40: watchSTEvents never reads the last element of an empty list: after a
\* successful reply without events, a nil list or an empty one, the loop goes
\* on with lastSeenID unchanged; after a reply with events lastSeenID is the
\* ID of the last of them; lastSeenID goes back to 0 only after an error.
C40_LastSeenID ==
    [][requests' # requests =>
          /\ ~crashed'
          /\ (reply'.kind \in {"nil", "list"} /\ reply'.events = <<>>)
                 => lastSeenID' = lastSeenID
          /\ (reply'.kind = "list" /\ reply'.events # <<>>)
                 => lastSeenID' = reply'.events[Len(reply'.events)]
          /\ (lastSeenID # 0 /\ lastSeenID' = 0) => reply'.kind = "error"]_vars

=============================================================================
